---- MODULE Spec2Model ----
(***************************************************************************)
(* Model of the Freebox probe: mDNS discovery of the Freebox               *)
(* (Freebox.__init__ and its MDNSListener), construction of API URLs       *)
(* (_full_api_url), registration (register) and the script's main.         *)
(*                                                                         *)
(* The repository holds two entry points.  freeprobe.py is the single-file *)
(* script: its own Freebox class, whose listener keeps the last result of  *)
(* get_service_info, and a main that only discovers.  fbxmetrics.py is the *)
(* split script: main discovers, then registers or collects, using the     *)
(* Freebox class of freebox.py.  fbx.py, the module fbxmetrics.py imports,  *)
(* is the same class without the MDNSListener it still instantiates: with  *)
(* it the construction ends at once with AttributeError (ListenerMissing). *)
(* The variable script says which of the two entry points is running.      *)
(*                                                                         *)
(* Text is modelled as sequences of one-character strings, so that         *)
(* concatenation and split are computed as Python computes them.           *)
(***************************************************************************)
EXTENDS Integers, Sequences, FiniteSets, TLC

\* Largest number of service-added events delivered in one discovery window.
MaxEvents == 3

Scripts == {"fbxmetrics", "freeprobe"}

----------------------------------------------------------------------------
\* Text helpers

RECURSIVE Join(_)
\* Concatenation of a sequence of texts (Python's chained +).
Join(parts) ==
    IF parts = <<>> THEN <<>> ELSE Head(parts) \o Join(Tail(parts))

Digits == <<"0", "1", "2", "3", "4", "5", "6", "7", "8", "9">>

RECURSIVE Str(_)
\* Python str() of a non-negative integer: its decimal digits.
Str(n) ==
    IF n < 10 THEN <<Digits[n + 1]>>
    ELSE Str(n \div 10) \o <<Digits[(n % 10) + 1]>>

RECURSIVE Split(_, _)
\* Python s.split(sep) for a one-character separator: the pieces between
\* the occurrences of sep (one piece, the whole text, when sep is absent).
Split(s, sep) ==
    IF \A i \in 1..Len(s) : s[i] # sep
    THEN <<s>>
    ELSE LET i == CHOOSE k \in 1..Len(s) :
                      /\ s[k] = sep
                      /\ \A j \in 1..(k - 1) : s[j] # sep
         IN <<SubSeq(s, 1, i - 1)>> \o Split(SubSeq(s, i + 1, Len(s)), sep)

\* dict[k] = v
Put(d, k, v) == [x \in (DOMAIN d) \cup {k} |-> IF x = k THEN v ELSE d[x]]

EmptyDict == [x \in {} |-> 0]

\* bytes.decode(): a bytes value carries the text it encodes, or is not
\* valid UTF-8, in which case decode raises UnicodeDecodeError.
Bytes(t) == [ok |-> TRUE, text |-> t]
BadBytes == [ok |-> FALSE, text |-> <<>>]
Decodable(b) == b.ok
Decode(b) == b.text

----------------------------------------------------------------------------
\* The service records get_service_info can resolve to (ServiceInfo objects).
\* properties is the TXT record in the order of the dict's items.

Txt(k, v) == [key |-> Bytes(k), value |-> Bytes(v)]

InfoServer ==
    [name |-> "Freebox Server._fbx-api._tcp.local.",
     type |-> "_fbx-api._tcp.local.",
     server |-> "Freebox-Server.local.",
     port |-> 80,
     address |-> <<192, 168, 1, 254>>,
     properties |-> << Txt("api_version", <<"8", ".", "1">>),
                       Txt("device_type", <<"F", "B", "7", ",", "1">>),
                       Txt("api_base_url", <<"/", "a", "p", "i", "/">>),
                       Txt("uid", <<"u", "1">>),
                       Txt("api_domain", <<"m", "a", ".", "f", "r">>) >>]

\* A second box, whose TXT record has another key set: no uid, no
\* device_type, an https_port, and a version without a minor part.
InfoOther ==
    [name |-> "Other._fbx-api._tcp.local.",
     type |-> "_fbx-api._tcp.local.",
     server |-> "Other.local.",
     port |-> 8080,
     address |-> <<10, 0, 0, 7>>,
     properties |-> << Txt("api_version", <<"1", "0">>),
                       Txt("api_base_url", <<"/">>),
                       Txt("api_domain", <<"o", ".", "f", "r">>),
                       Txt("https_port", <<"4", "4", "3">>) >>]

\* A record with an empty TXT record.
InfoBare ==
    [name |-> "Bare._fbx-api._tcp.local.",
     type |-> "_fbx-api._tcp.local.",
     server |-> "Bare.local.",
     port |-> 80,
     address |-> <<0, 0, 0, 0>>,
     properties |-> << >>]

\* A record whose TXT record holds a value that is not valid UTF-8.
InfoGarbled ==
    [name |-> "Garbled._fbx-api._tcp.local.",
     type |-> "_fbx-api._tcp.local.",
     server |-> "Garbled.local.",
     port |-> 80,
     address |-> <<192, 168, 1, 9>>,
     properties |-> << Txt("api_domain", <<"g", ".", "f", "r">>),
                       [key |-> Bytes("api_version"), value |-> BadBytes],
                       Txt("api_base_url", <<"/", "g", "/">>) >>]

Infos == <<InfoServer, InfoOther, InfoBare, InfoGarbled>>

\* What get_service_info returns: None (0) or one of the records.
None == 0
Resolutions == {None} \cup (1..Len(Infos))

----------------------------------------------------------------------------
\* The program's state

VARIABLES
    script,            \* which entry point runs
    cancel_joins,      \* the installed zeroconf's cancel() joins the thread
    args_register,     \* the --register option
    pc,                \* position of the calling flow
    zc_open,           \* the Zeroconf session is open
    browser,           \* the ServiceBrowser thread: none, running, dead, cancelled
    properties,        \* Freebox._properties (freebox.py)
    svc_info,          \* MDNSListener._info (freeprobe.py)
    callback,          \* the add_service call the browser thread is inside
    events,            \* resolutions of the service-added events delivered
    calls,             \* the Freebox methods main has called
    api_url,           \* argument of the last _full_api_url call
    url,               \* result of the last _full_api_url call
    requests,          \* the HTTP requests issued
    response,          \* the device's answer to the authorization POST
    track,             \* the device's status of the authorization track
    store,             \* the tokens written to the credential store
    constructed,       \* Freebox() returned an object
    register_returned, \* register returned without raising
    raised,            \* the exception that reached main ("none" if none did)
    exit_status,       \* the process exit status (-1 while running)
    traceback,         \* the interpreter printed a stack trace
    printed            \* the messages main printed

vars == <<script, cancel_joins, args_register,
          pc, zc_open, browser, properties, svc_info,
          callback, events, calls, api_url, url, requests, response, track, store,
          constructed, register_returned, raised, exit_status, traceback,
          printed>>

discoveryVars == <<zc_open, browser, properties, svc_info, callback, events,
                   constructed>>
sessionVars == <<api_url, url, requests, response, track, store, register_returned>>
exitVars == <<raised, exit_status, traceback, printed>>

NotFoundMessage == "Fatal: Unable to find a Freebox on the local network!"

HTTPS == <<"h", "t", "t", "p", "s", ":", "/", "/">>
AUTHORIZE == <<"/", "l", "o", "g", "i", "n", "/",
               "a", "u", "t", "h", "o", "r", "i", "z", "e", "/">>

NoResponse == [code |-> 0, app_token |-> <<>>]
\* The token the device issues when it accepts the authorization request.
DeviceToken == <<"t", "o", "k">>

----------------------------------------------------------------------------
\* MDNSListener.add_service

\* str(info.address[0]) + "." + ... + str(info.address[3])
Address(info) ==
    Join(<<Str(info.address[1]), <<".">>, Str(info.address[2]), <<".">>,
           Str(info.address[3]), <<".">>, Str(info.address[4])>>)

\* The five assignments from the ServiceInfo's attributes.
WriteInfo(props, info) ==
    Put(Put(Put(Put(Put(props, "name", info.name),
                    "type", info.type),
                "server", info.server),
            "port", info.port),
        "address", Address(info))

RECURSIVE WriteTxt(_, _)
\* for key, value in info.properties.items():
\*     properties[key.decode()] = value.decode()
\* A decode that raises ends the loop with the items before it written.
WriteTxt(props, items) ==
    IF items = <<>> THEN [props |-> props, failed |-> FALSE]
    ELSE LET it == Head(items)
         IN IF ~Decodable(it.value) \/ ~Decodable(it.key)
            THEN [props |-> props, failed |-> TRUE]
            ELSE WriteTxt(Put(props, Decode(it.key), Decode(it.value)),
                          Tail(items))

\* add_service of freebox.py on a resolution r: the mapping afterwards, and
\* whether the callback raised.
add_service(props, r) ==
    IF r = None THEN [props |-> props, failed |-> FALSE]
    ELSE WriteTxt(WriteInfo(props, Infos[r]), Infos[r].properties)

\* add_service of freeprobe.py: self._info = get_service_info(...)
probe_add_service(info, r) == r

\* The same callback statement by statement, as the browser thread runs it
\* beside the calling flow: the assignments to the mapping in their order,
\* and whether a decode raises after the last of them.
InfoAssignments(info) ==
    << [key |-> "name", value |-> info.name],
       [key |-> "type", value |-> info.type],
       [key |-> "server", value |-> info.server],
       [key |-> "port", value |-> info.port],
       [key |-> "address", value |-> Address(info)] >>

RECURSIVE TxtAssignments(_)
TxtAssignments(items) ==
    IF items = <<>> THEN [writes |-> <<>>, failed |-> FALSE]
    ELSE LET it == Head(items)
         IN IF ~Decodable(it.value) \/ ~Decodable(it.key)
            THEN [writes |-> <<>>, failed |-> TRUE]
            ELSE LET rest == TxtAssignments(Tail(items))
                 IN [writes |-> <<[key |-> Decode(it.key),
                                   value |-> Decode(it.value)]>>
                                \o rest.writes,
                     failed |-> rest.failed]

Assignments(info) ==
    [writes |-> InfoAssignments(info) \o TxtAssignments(info.properties).writes,
     failed |-> TxtAssignments(info.properties).failed]

\* No add_service call is running.
Idle == [info |-> None, written |-> 0]

----------------------------------------------------------------------------
\* Freebox._full_api_url

UrlKeys == {"api_domain", "api_base_url", "api_version"}

\* A missing key raises KeyError.
FullApiUrlRaises(props) == ~(UrlKeys \subseteq DOMAIN props)

\* The URL with the port of the service record in it.
FullApiUrlWithPort(props, api) ==
    Join(<<HTTPS,
           props["api_domain"],
           <<":">>, Str(props["port"]),
           props["api_base_url"],
           <<"v">>, Split(props["api_version"], ".")[1],
           api>>)

FullApiUrl(props, api) ==
    Join(<<HTTPS,
           props["api_domain"],
           props["api_base_url"],
           <<"v">>, Split(props["api_version"], ".")[1],
           api>>)

----------------------------------------------------------------------------
\* Leaving the process

\* An exception no handler of main catches: the interpreter prints the
\* stack trace and the process ends with the given status.
Uncaught(exception, status) ==
    /\ pc' = "exit"
    /\ raised' = exception
    /\ exit_status' = status
    /\ traceback' = TRUE
    /\ UNCHANGED printed

\* except FreeboxError as e: print(e.message); sys.exit(1)
HandledExit(message) ==
    /\ pc' = "exit"
    /\ raised' = "FreeboxError"
    /\ exit_status' = 1
    /\ printed' = Append(printed, message)
    /\ UNCHANGED traceback

\* main returns: exit status 0.
NormalExit ==
    /\ pc' = "exit"
    /\ exit_status' = 0
    /\ UNCHANGED <<raised, traceback, printed>>

----------------------------------------------------------------------------
\* Freebox.__init__

Init ==
    /\ script \in Scripts
    /\ cancel_joins \in BOOLEAN
    /\ args_register \in BOOLEAN
    /\ pc = "main"
    /\ zc_open = FALSE
    /\ browser = "none"
    /\ properties = EmptyDict
    /\ svc_info = None
    /\ callback = Idle
    /\ events = <<>>
    /\ calls = <<>>
    /\ api_url = <<>>
    /\ url = <<>>
    /\ requests = <<>>
    /\ response = NoResponse
    /\ track = "none"
    /\ store = {}
    /\ constructed = FALSE
    /\ register_returned = FALSE
    /\ raised = "none"
    /\ exit_status = -1
    /\ traceback = FALSE
    /\ printed = <<>>

\* main calls Freebox(); zeroconf = Zeroconf()
OpenZeroconf ==
    /\ pc = "main"
    /\ pc' = "browse"
    /\ zc_open' = TRUE
    /\ calls' = Append(calls, "Freebox")
    /\ UNCHANGED <<script, cancel_joins, args_register,
                   browser, properties, svc_info,
                   callback, events, constructed>>
    /\ UNCHANGED sessionVars
    /\ UNCHANGED exitVars

\* self._mdns_listener = Freebox.MDNSListener(self) with the Freebox class
\* of fbx.py, which defines no MDNSListener: AttributeError, not caught.
ListenerMissing ==
    /\ pc = "main"
    /\ script = "fbxmetrics"
    /\ calls' = Append(calls, "Freebox")
    /\ Uncaught("AttributeError", 1)
    /\ UNCHANGED <<script, cancel_joins, args_register>>
    /\ UNCHANGED discoveryVars
    /\ UNCHANGED sessionVars

\* Zeroconf() raises (no usable network interface): OSError, not caught.
ZeroconfRaises ==
    /\ pc = "main"
    /\ calls' = Append(calls, "Freebox")
    /\ Uncaught("OSError", 1)
    /\ UNCHANGED <<script, cancel_joins, args_register>>
    /\ UNCHANGED discoveryVars
    /\ UNCHANGED sessionVars

\* browser = ServiceBrowser(zeroconf, self._TYPE, self._mdns_listener)
StartBrowser ==
    /\ pc = "browse"
    /\ pc' = "sleep"
    /\ browser' = "running"
    /\ UNCHANGED <<script, cancel_joins, args_register,
                   zc_open, properties, svc_info,
                   callback, events, constructed, calls>>
    /\ UNCHANGED sessionVars
    /\ UNCHANGED exitVars

\* ServiceBrowser(...) raises (the thread cannot be started): not caught,
\* and nothing closes the Zeroconf session.
BrowserRaises ==
    /\ pc = "browse"
    /\ Uncaught("RuntimeError", 1)
    /\ UNCHANGED <<script, cancel_joins, args_register, calls>>
    /\ UNCHANGED discoveryVars
    /\ UNCHANGED sessionVars

\* The browser thread delivers a service-added event and add_service runs:
\* get_service_info resolves it to r.  freeprobe.py stores r at once;
\* freebox.py goes on to its assignments when r is a record.
AddService(r) ==
    /\ pc \in {"sleep", "cancel"}
    /\ browser = "running"
    /\ callback = Idle
    /\ Len(events) < MaxEvents
    /\ events' = Append(events, r)
    /\ IF script = "freeprobe"
       THEN /\ svc_info' = probe_add_service(svc_info, r)
            /\ UNCHANGED callback
       ELSE /\ callback' = [info |-> r, written |-> 0]
            /\ UNCHANGED svc_info
    /\ UNCHANGED <<script, cancel_joins, args_register,
                   pc, zc_open, browser, properties,
                   constructed, calls>>
    /\ UNCHANGED sessionVars
    /\ UNCHANGED exitVars

\* The browser thread runs the next assignment of add_service, and leaves
\* the callback after the last one.
WriteProperty ==
    /\ pc # "exit"
    /\ callback # Idle
    /\ callback.written < Len(Assignments(Infos[callback.info]).writes)
    /\ LET a == Assignments(Infos[callback.info])
           w == a.writes[callback.written + 1]
       IN /\ properties' = Put(properties, w.key, w.value)
          /\ callback' = IF callback.written + 1 = Len(a.writes) /\ ~a.failed
                         THEN Idle
                         ELSE [callback EXCEPT !.written = @ + 1]
    /\ UNCHANGED <<script, cancel_joins, args_register,
                   pc, zc_open, browser, svc_info,
                   events, constructed, calls>>
    /\ UNCHANGED sessionVars
    /\ UNCHANGED exitVars

\* A decode in add_service raises.  The exception may end the browser
\* thread or only be reported, depending on the zeroconf release.
DecodeRaises ==
    /\ pc # "exit"
    /\ callback # Idle
    /\ callback.written = Len(Assignments(Infos[callback.info]).writes)
    /\ Assignments(Infos[callback.info]).failed
    /\ callback' = Idle
    /\ browser' \in IF browser = "running" THEN {"running", "dead"}
                    ELSE {browser}
    /\ UNCHANGED <<script, cancel_joins, args_register,
                   pc, zc_open, properties, svc_info,
                   events, constructed, calls>>
    /\ UNCHANGED sessionVars
    /\ UNCHANGED exitVars

\* time.sleep(...) returns
SleepEnds ==
    /\ pc = "sleep"
    /\ pc' = "cancel"
    /\ UNCHANGED <<script, cancel_joins, args_register, calls>>
    /\ UNCHANGED discoveryVars
    /\ UNCHANGED sessionVars
    /\ UNCHANGED exitVars

\* time.sleep(...) is interrupted (KeyboardInterrupt): not caught.  The
\* interpreter exits with status 1, or ends itself with SIGINT (130).
SleepInterrupted ==
    /\ pc = "sleep"
    /\ \E status \in {1, 130} : Uncaught("KeyboardInterrupt", status)
    /\ UNCHANGED <<script, cancel_joins, args_register, calls>>
    /\ UNCHANGED discoveryVars
    /\ UNCHANGED sessionVars

\* browser.cancel() with no add_service call running; a zeroconf release
\* that joins the browser thread returns from cancel() only then.
CancelBrowser ==
    /\ pc = "cancel"
    /\ callback = Idle
    /\ pc' = "close"
    /\ browser' = "cancelled"
    /\ UNCHANGED <<script, cancel_joins, args_register,
                   zc_open, properties, svc_info,
                   callback, events, constructed, calls>>
    /\ UNCHANGED sessionVars
    /\ UNCHANGED exitVars

\* browser.cancel() of a zeroconf release that only flags the thread as
\* done: it returns while an add_service call is still running; the thread
\* ends after that call.
CancelWithoutJoin ==
    /\ pc = "cancel"
    /\ ~cancel_joins
    /\ callback # Idle
    /\ pc' = "close"
    /\ browser' = "cancelled"
    /\ UNCHANGED <<script, cancel_joins, args_register,
                   zc_open, properties, svc_info,
                   callback, events, constructed, calls>>
    /\ UNCHANGED sessionVars
    /\ UNCHANGED exitVars

\* zeroconf.close()
CloseZeroconf ==
    /\ pc = "close"
    /\ pc' = "test"
    /\ zc_open' = FALSE
    /\ UNCHANGED <<script, cancel_joins, args_register,
                   browser, properties, svc_info,
                   callback, events, constructed, calls>>
    /\ UNCHANGED sessionVars
    /\ UNCHANGED exitVars

\* if not self._properties / if not self._mdns_listener.svc_info
NothingFound ==
    IF script = "freeprobe" THEN svc_info = None
    ELSE DOMAIN properties = {}

\* raise FreeboxError(...), which main catches.
ConstructorRaises ==
    /\ pc = "test"
    /\ NothingFound
    /\ HandledExit(NotFoundMessage)
    /\ UNCHANGED <<script, cancel_joins, args_register, calls>>
    /\ UNCHANGED discoveryVars
    /\ UNCHANGED sessionVars

\* The constructor returns the Freebox.
ConstructorReturns ==
    /\ pc = "test"
    /\ ~NothingFound
    /\ pc' = "branch"
    /\ constructed' = TRUE
    /\ UNCHANGED <<script, cancel_joins, args_register,
                   zc_open, browser, properties,
                   svc_info, callback, events, calls>>
    /\ UNCHANGED sessionVars
    /\ UNCHANGED exitVars

----------------------------------------------------------------------------
\* main

\* The branch with the test of the option inverted.
MainBranchInverted(register) == IF register THEN "get_metrics" ELSE "register"

\* if args.register: freebox.register(...) else: freebox.get_metrics()
MainBranch(register) == IF register THEN "register" ELSE "get_metrics"

\* main of freeprobe.py ends after the discovery.
ProbeMainEnds ==
    /\ pc = "branch"
    /\ script = "freeprobe"
    /\ NormalExit
    /\ UNCHANGED <<script, cancel_joins, args_register, calls>>
    /\ UNCHANGED discoveryVars
    /\ UNCHANGED sessionVars

\* register, up to the blocking requests.post(url, json.dumps(data)):
\* the URL is built, which raises KeyError on a missing key, and the
\* request is sent without a timeout argument.
Register ==
    /\ pc = "branch"
    /\ script = "fbxmetrics"
    /\ MainBranch(args_register) = "register"
    /\ calls' = Append(calls, "register")
    /\ IF FullApiUrlRaises(properties)
       THEN /\ Uncaught("KeyError", 1)
            /\ UNCHANGED <<api_url, url, requests>>
       ELSE /\ api_url' = AUTHORIZE
            /\ url' = FullApiUrl(properties, AUTHORIZE)
            /\ requests' = Append(requests,
                                  [method |-> "POST",
                                   url |-> FullApiUrl(properties, AUTHORIZE),
                                   timeout |-> None])
            /\ pc' = "post"
            /\ UNCHANGED exitVars
    /\ UNCHANGED <<script, cancel_joins, args_register, response, track, store,
                   register_returned>>
    /\ UNCHANGED discoveryVars

\* The device answers the POST with HTTP status code; register ignores the
\* response and returns, and main ends.
PostReturns(code) ==
    /\ pc = "post"
    /\ response' = [code |-> code,
                    app_token |-> IF code = 200 THEN DeviceToken ELSE <<>>]
    /\ track' = IF code = 200 THEN "pending" ELSE track
    /\ register_returned' = TRUE
    /\ NormalExit
    /\ UNCHANGED <<script, cancel_joins, args_register,
                   calls, api_url, url, requests, store>>
    /\ UNCHANGED discoveryVars

\* requests.post raises (connection refused, TLS failure): not caught.
PostRaises ==
    /\ pc = "post"
    /\ Uncaught("ConnectionError", 1)
    /\ UNCHANGED <<script, cancel_joins, args_register, calls>>
    /\ UNCHANGED discoveryVars
    /\ UNCHANGED sessionVars

\* get_metrics is `pass`; main ends.
GetMetrics ==
    /\ pc = "branch"
    /\ script = "fbxmetrics"
    /\ MainBranch(args_register) = "get_metrics"
    /\ calls' = Append(calls, "get_metrics")
    /\ NormalExit
    /\ UNCHANGED <<script, cancel_joins, args_register>>
    /\ UNCHANGED discoveryVars
    /\ UNCHANGED sessionVars

Next ==
    \/ OpenZeroconf
    \/ ListenerMissing
    \/ ZeroconfRaises
    \/ StartBrowser
    \/ BrowserRaises
    \/ \E r \in Resolutions : AddService(r)
    \/ WriteProperty
    \/ DecodeRaises
    \/ SleepEnds
    \/ SleepInterrupted
    \/ CancelBrowser
    \/ CancelWithoutJoin
    \/ CloseZeroconf
    \/ ConstructorRaises
    \/ ConstructorReturns
    \/ ProbeMainEnds
    \/ Register
    \/ \E code \in {200, 403} : PostReturns(code)
    \/ PostRaises
    \/ GetMetrics

Spec == Init /\ [][Next]_vars

----------------------------------------------------------------------------
\* _full_api_url on its own: the descriptors of records whose TXT record
\* holds the three keys of the URL, and a call for each api_url.

UrlDomains == {<<"m", "a", ".", "f", "r">>, <<"b", "o", "x">>}
UrlBases == {<<"/", "a", "p", "i", "/">>, <<"/">>}
UrlVersions == {<<"8", ".", "1">>, <<"8">>, <<"1", "0", ".", "0", ".", "2">>,
                <<".", "5">>, <<"8", ".">>, <<>>}
UrlPorts == {80, 8080}
UrlAddresses == {<<"1", ".", "2", ".", "3", ".", "4">>, <<"0", ".", "0", ".", "0", ".", "0">>}
UrlApis == {AUTHORIZE, <<"/", "l", "o", "g", "i", "n", "/">>, <<>>}

UrlDescriptors ==
    { [add_service(EmptyDict, 1).props EXCEPT
           !["api_domain"] = dm, !["api_base_url"] = b, !["api_version"] = v,
           !["port"] = p, !["address"] = a] :
      dm \in UrlDomains, b \in UrlBases, v \in UrlVersions,
      p \in UrlPorts, a \in UrlAddresses }

InitUrl ==
    /\ script = "fbxmetrics"
    /\ cancel_joins = TRUE
    /\ args_register = FALSE
    /\ pc = "url"
    /\ zc_open = FALSE
    /\ browser = "cancelled"
    /\ properties \in UrlDescriptors
    /\ svc_info = None
    /\ callback = Idle
    /\ events = <<1>>
    /\ calls = <<"Freebox">>
    /\ api_url = <<>>
    /\ url = <<>>
    /\ requests = <<>>
    /\ response = NoResponse
    /\ track = "none"
    /\ store = {}
    /\ constructed = TRUE
    /\ register_returned = FALSE
    /\ raised = "none"
    /\ exit_status = -1
    /\ traceback = FALSE
    /\ printed = <<>>

\* url = self._full_api_url(api)
BuildUrl(api) ==
    /\ pc = "url"
    /\ ~FullApiUrlRaises(properties)
    /\ api_url' = api
    /\ url' = FullApiUrl(properties, api)
    /\ pc' = "url_done"
    /\ UNCHANGED <<script, cancel_joins, args_register,
                   calls, requests, response, track,
                   store, register_returned>>
    /\ UNCHANGED discoveryVars
    /\ UNCHANGED exitVars

NextUrl == \E api \in UrlApis : BuildUrl(api)

SpecUrl == InitUrl /\ [][NextUrl]_vars

----------------------------------------------------------------------------
\* Properties

Range(f) == {f[i] : i \in DOMAIN f}

\* Control has left Freebox.__init__ (by return or by an exception).
LeftConstructor == pc \in {"branch", "post", "exit"} /\ calls # <<>>

AnyResolved == \E i \in 1..Len(events) : events[i] # None

FirstResolved ==
    events[CHOOSE i \in 1..Len(events) :
               /\ events[i] # None
               /\ \A j \in 1..(i - 1) : events[j] = None]

\* C1: discovery raises the not-found FreeboxError if and only if none of
\* the service-added events of the window resolved to a record; it returns
\* a descriptor when at least one resolved.  (Stated for a cancel() that
\* joins, so that every callback has ended when the test is made.)
C1_NotFoundIffNoneResolved ==
    (cancel_joins /\ (constructed \/ raised = "FreeboxError")) =>
        (raised = "FreeboxError" <=> ~AnyResolved)

\* C2: whenever control has left the constructor, the browser has been
\* cancelled and the Zeroconf session closed, on a return, on the
\* not-found error, and on an error while the browser is started or the
\* wait is running.
C2_SessionReleased ==
    LeftConstructor => (~zc_open /\ browser \in {"none", "cancelled"})

\* C3: the descriptor discovery returns is the one of the first record that
\* resolved; later service-added events do not change it.  (Stated for a
\* cancel() that joins: the descriptor is read with no callback running.)
C3_FirstResolvedWins ==
    (cancel_joins /\ constructed) =>
        IF script = "freeprobe"
        THEN svc_info = FirstResolved
        ELSE properties = add_service(EmptyDict, FirstResolved).props

\* The part of a text before its first "." (the whole text without one).
MajorPart(s) ==
    LET n == CHOOSE k \in 0..Len(s) :
                 /\ \A i \in 1..k : s[i] # "."
                 /\ k = Len(s) \/ s[k + 1] = "."
    IN SubSeq(s, 1, n)

\* C4: the URL _full_api_url builds is "https://" + api_domain +
\* api_base_url + "v" + the part of api_version before its first "." +
\* api_url, and a descriptor with another port or address gives the same.
C4_FullApiUrl ==
    pc = "url_done" =>
        /\ url = HTTPS \o properties["api_domain"]
                       \o properties["api_base_url"]
                       \o <<"v">> \o MajorPart(properties["api_version"])
                       \o api_url
        /\ \A p \in UrlPorts, a \in UrlAddresses :
               FullApiUrl([properties EXCEPT !["port"] = p, !["address"] = a],
                          api_url) = url

\* C4 witness: a URL was built for api_version "8.1", and holds "v8".
C4_Witness ==
    /\ pc = "url_done"
    /\ properties["api_version"] = <<"8", ".", "1">>
    /\ api_url = AUTHORIZE
    /\ url = HTTPS \o properties["api_domain"] \o properties["api_base_url"]
                   \o <<"v", "8">> \o AUTHORIZE

RequiredKeys == {"api_version", "api_base_url", "api_domain", "device_type", "uid"}

\* <major>.<minor>: at least two parts, the first not empty.
VersionWellFormed(v) ==
    /\ Len(Split(v, ".")) >= 2
    /\ Split(v, ".")[1] # <<>>

\* C5: a descriptor used to build an API URL or to issue a request holds
\* all the required keys and an api_version of the form <major>.<minor>.
\* (Stated for a cancel() that joins: the descriptor is the finished one.)
C5_UsableDescriptor ==
    (cancel_joins /\ (url # <<>> \/ requests # <<>>)) =>
        /\ RequiredKeys \subseteq DOMAIN properties
        /\ VersionWellFormed(properties["api_version"])

\* C6: main of fbxmetrics.py calls register or get_metrics only after
\* discovery returned a descriptor, and exactly one of them: with the
\* register option the registration is run and get_metrics is not called,
\* without it get_metrics is called and no registration request is sent.
C6_DiscoverThenOne ==
    script = "fbxmetrics" =>
        /\ \A i \in 1..Len(calls) : (i = 1) <=> (calls[i] = "Freebox")
        /\ Len(calls) <= 2
        /\ Len(calls) = 2 => constructed
        /\ args_register =>
               /\ "get_metrics" \notin Range(calls)
               /\ (pc \in {"post", "exit"} /\ constructed)
                      => "register" \in Range(calls)
        /\ ~args_register =>
               /\ "register" \notin Range(calls)
               /\ requests = <<>>
               /\ (pc = "exit" /\ constructed)
                      => "get_metrics" \in Range(calls)
        /\ requests # <<>> => "register" \in Range(calls)

\* C6 witness: a run with the register option in which the registration
\* request was sent and answered.
C6_Witness ==
    /\ script = "fbxmetrics"
    /\ pc = "exit"
    /\ args_register
    /\ calls = <<"Freebox", "register">>
    /\ Len(requests) = 1
    /\ register_returned

\* C7: a run in which a stage failed ends with exit status 1, one message
\* and no stack trace; a run in which none failed ends with exit status 0.
C7_CleanExit ==
    pc = "exit" =>
        IF raised # "none"
        THEN exit_status = 1 /\ ~traceback /\ Len(printed) = 1
        ELSE exit_status = 0

NumPolls == Cardinality({i \in 1..Len(requests) : requests[i].method = "GET"})

\* C8: register returns successfully only after the device reported the
\* track granted in answer to a polling request.
C8_GrantedBeforeReturn ==
    register_returned => (track = "granted" /\ NumPolls >= 1)

\* C9: when register returns without error the granted app token is in the
\* credential store; when it fails nothing is stored.
C9_TokenStored ==
    /\ register_returned => response.app_token \in store
    /\ ~register_returned => store = {}

\* C10: every HTTP request the program issues carries a timeout.
C10_RequestsTimeOut ==
    \A i \in 1..Len(requests) : requests[i].timeout # None

\* The record that supplied the name held in the mapping.
SourceRecord ==
    CHOOSE r \in 1..Len(Infos) : Infos[r].name = properties["name"]

\* C12: every key and value of the descriptor discovery returned comes from
\* the record that supplied its name, type, server, port and address.
\* (Stated for a cancel() that joins: no callback is caught half-way.)
C12_OneRecord ==
    (cancel_joins /\ constructed /\ "name" \in DOMAIN properties) =>
        LET own == add_service(EmptyDict, SourceRecord).props
        IN \A k \in DOMAIN properties :
               k \in DOMAIN own /\ properties[k] = own[k]

\* C11: once the constructor has returned the descriptor, no callback of
\* the listener writes to the properties mapping, in any interleaving of
\* the browser thread with the calling flow.
C11_ImmutableAfterReturn ==
    [][constructed => properties' = properties]_vars

====
